---------------------------- MODULE Spec2Model ----------------------------
(***************************************************************************)
(* The SATISH image container: the header codec (core/format.py), the      *)
(* encoder (core/encoder.py), the decoder (core/decoder.py) and the staged *)
(* validator (core/validator.py).                                          *)
(*                                                                         *)
(* Bytes are the integers 0..255, byte strings and (ASCII) text are        *)
(* sequences of them.  A call either returns a value or raises an          *)
(* exception: Return(v) and Raise(exc, text, data), where text is the      *)
(* chain of message prefixes from the outermost wrapper inwards and data   *)
(* the values formatted into the innermost message.                        *)
(***************************************************************************)
EXTENDS Integers, Sequences, FiniteSets, TLC

VARIABLES
    fileExists,   \* the path names a regular, readable file
    fileData,     \* its content, a byte string
    encoded,      \* arguments of the last encode_from_array that returned True
    tampered,     \* the file was changed by someone else since that encode
    hdr,          \* the SatishHeader the caller holds (last one created or unpacked)
    packed,       \* the bytes pack_header produced from hdr
    op,           \* the operation that ran last
    arg,          \* its argument
    ret,          \* its outcome
    pc,           \* where the operation in progress stands, "idle" between operations
    handles,      \* the number of file handles the program holds open
    snap,         \* what the operation in progress holds in memory: the file as
                  \* each stage of validate_file found it, the bytes encode writes
    history       \* every content the file had while the operation in progress ran

vars == <<fileExists, fileData, encoded, tampered, hdr, packed, op, arg, ret,
          pc, handles, snap, history>>

fileVars == <<fileExists, fileData, encoded, tampered>>

headerVars == <<hdr, packed>>

stepVars == <<pc, handles, snap, history>>

\* No operation in progress, no handle open
Idle ==
    /\ pc = "idle"
    /\ handles = 0
    /\ snap = <<>>
    /\ history = {}

-----------------------------------------------------------------------------
(* Outcomes of a call.                                                     *)

Return(v) == [kind |-> "return", val |-> v]

Raise(exc, text, data) == [kind |-> "raise", exc |-> exc, text |-> text, data |-> data]

Returned(r) == r.kind = "return"

Raised(r, exc) == r.kind = "raise" /\ r.exc = exc

None == [none |-> TRUE]

\* utils/exceptions.py: the classes that derive from InvalidFormatError.
InvalidFormatErrors ==
    {"InvalidFormatError", "UnsupportedVersionError", "DimensionError",
     "PixelDataError", "HeaderError"}

\* Wrapping: raise Outer(f"<prefix>: {str(e)}") from e
Wrap(exc, prefix, r) == Raise(exc, <<prefix>> \o r.text, r.data)

\* name = value, then the statements that follow
With(v, K(_)) == K(v)

\* name = call(...), then the statements that follow: an exception the call
\* raises ends them.
Try(r, K(_)) == IF Returned(r) THEN K(r.val) ELSE r

\* try: ... except Exception as e: handler
Except(r, H(_)) == IF Returned(r) THEN r ELSE H(r)

-----------------------------------------------------------------------------
(* core/format.py: constants.                                              *)

MAGIC_BYTES == <<83, 65, 84, 73>>      \* b"SATI"

CURRENT_VERSION == 1

MAGIC_SIZE == 4

WIDTH_SIZE == 2

HEIGHT_SIZE == 2

CHANNELS_SIZE == 1

VERSION_SIZE == 1

HEADER_SIZE == MAGIC_SIZE + WIDTH_SIZE + HEIGHT_SIZE + CHANNELS_SIZE + VERSION_SIZE

MAX_WIDTH == 65535

MAX_HEIGHT == 65535

SUPPORTED_CHANNELS == {3}

HEX_CHARS_PER_PIXEL == 6

SatishHeader(magic, width, height, channels, version) ==
    [magic |-> magic, width |-> width, height |-> height,
     channels |-> channels, version |-> version]

-----------------------------------------------------------------------------
(* struct.pack / struct.unpack for the formats the header uses.            *)

\* A struct.pack('<H', n): least significant byte first.
struct_pack_H_little_endian(n) ==
    IF 0 <= n /\ n <= 65535
    THEN Return(<<n % 256, n \div 256>>)
    ELSE Raise("struct.error", <<"'H' format requires 0 <= number <= 65535">>, <<n>>)

\* struct.pack('>H', n): two bytes, most significant first; struct.error
\* outside 0..65535.
struct_pack_H(n) ==
    IF 0 <= n /\ n <= 65535
    THEN Return(<<n \div 256, n % 256>>)
    ELSE Raise("struct.error", <<"'H' format requires 0 <= number <= 65535">>, <<n>>)

\* struct.pack('B', n): one byte; struct.error outside 0..255.
struct_pack_B(n) ==
    IF 0 <= n /\ n <= 255
    THEN Return(<<n>>)
    ELSE Raise("struct.error", <<"ubyte format requires 0 <= number <= 255">>, <<n>>)

\* struct.unpack('>H', b)[0] on two bytes.
struct_unpack_H(b) == b[1] * 256 + b[2]

\* struct.unpack('B', b)[0] on one byte.
struct_unpack_B(b) == b[1]

\* Python slice data[i:j] (0-based, end exclusive, clipped to the length).
Slice(s, i, j) ==
    LET hi == IF j < Len(s) THEN j ELSE Len(s)
    IN  IF i >= hi THEN <<>> ELSE SubSeq(s, i + 1, hi)

-----------------------------------------------------------------------------
(* core/format.py: SatishFormat.                                           *)

\* A create_header whose lower limits are off by one (0 <= width, 0 <= height).
create_header_zero_allowed(width, height, channels, version) ==
    IF ~(0 <= width /\ width <= MAX_WIDTH)
    THEN Raise("InvalidFormatError", <<"Width must be between 1 and MAX_WIDTH, got">>, <<width>>)
    ELSE IF ~(0 <= height /\ height <= MAX_HEIGHT)
    THEN Raise("InvalidFormatError", <<"Height must be between 1 and MAX_HEIGHT, got">>, <<height>>)
    ELSE IF channels \notin SUPPORTED_CHANNELS
    THEN Raise("InvalidFormatError", <<"Unsupported channels">>, <<channels>>)
    ELSE IF version < 1
    THEN Raise("InvalidFormatError", <<"Version must be >= 1, got">>, <<version>>)
    ELSE Return(SatishHeader(MAGIC_BYTES, width, height, channels, version))

create_header(width, height, channels, version) ==
    IF ~(1 <= width /\ width <= MAX_WIDTH)
    THEN Raise("InvalidFormatError", <<"Width must be between 1 and MAX_WIDTH, got">>, <<width>>)
    ELSE IF ~(1 <= height /\ height <= MAX_HEIGHT)
    THEN Raise("InvalidFormatError", <<"Height must be between 1 and MAX_HEIGHT, got">>, <<height>>)
    ELSE IF channels \notin SUPPORTED_CHANNELS
    THEN Raise("InvalidFormatError", <<"Unsupported channels">>, <<channels>>)
    ELSE IF version < 1
    THEN Raise("InvalidFormatError", <<"Version must be >= 1, got">>, <<version>>)
    ELSE Return(SatishHeader(MAGIC_BYTES, width, height, channels, version))

pack_header(header) ==
    LET w == struct_pack_H(header.width)
        h == struct_pack_H(header.height)
        c == struct_pack_B(header.channels)
        v == struct_pack_B(header.version)
    IN  IF ~Returned(w) THEN w
        ELSE IF ~Returned(h) THEN h
        ELSE IF ~Returned(c) THEN c
        ELSE IF ~Returned(v) THEN v
        ELSE Return(header.magic \o w.val \o h.val \o c.val \o v.val)

\* A _validate_header that also refuses versions above CURRENT_VERSION.
_validate_header_current_only(header) ==
    IF header.magic # MAGIC_BYTES
    THEN Raise("InvalidFormatError", <<"Invalid magic bytes">>, header.magic)
    ELSE IF ~(1 <= header.width /\ header.width <= MAX_WIDTH)
    THEN Raise("InvalidFormatError", <<"Invalid width">>, <<header.width>>)
    ELSE IF ~(1 <= header.height /\ header.height <= MAX_HEIGHT)
    THEN Raise("InvalidFormatError", <<"Invalid height">>, <<header.height>>)
    ELSE IF header.channels \notin SUPPORTED_CHANNELS
    THEN Raise("InvalidFormatError", <<"Unsupported channels">>, <<header.channels>>)
    ELSE IF header.version < 1 \/ header.version > CURRENT_VERSION
    THEN Raise("InvalidFormatError", <<"Invalid version">>, <<header.version>>)
    ELSE Return(None)

_validate_header(header) ==
    IF header.magic # MAGIC_BYTES
    THEN Raise("InvalidFormatError", <<"Invalid magic bytes">>, header.magic)
    ELSE IF ~(1 <= header.width /\ header.width <= MAX_WIDTH)
    THEN Raise("InvalidFormatError", <<"Invalid width">>, <<header.width>>)
    ELSE IF ~(1 <= header.height /\ header.height <= MAX_HEIGHT)
    THEN Raise("InvalidFormatError", <<"Invalid height">>, <<header.height>>)
    ELSE IF header.channels \notin SUPPORTED_CHANNELS
    THEN Raise("InvalidFormatError", <<"Unsupported channels">>, <<header.channels>>)
    ELSE IF header.version < 1
    THEN Raise("InvalidFormatError", <<"Invalid version">>, <<header.version>>)
    ELSE Return(None)

\* An unpack_header that looks at the magic before the length.
unpack_header_magic_first(data) ==
    LET magic == Slice(data, 0, 4)
    IN  IF magic # MAGIC_BYTES
        THEN Raise("InvalidFormatError", <<"Invalid magic bytes: expected MAGIC_BYTES, got">>, magic)
        ELSE IF Len(data) < HEADER_SIZE
        THEN Raise("InvalidFormatError", <<"Header too short: expected HEADER_SIZE bytes, got">>, <<Len(data)>>)
        ELSE LET width == struct_unpack_H(Slice(data, 4, 6))
                 height == struct_unpack_H(Slice(data, 6, 8))
                 channels == struct_unpack_B(Slice(data, 8, 9))
                 version == struct_unpack_B(Slice(data, 9, 10))
                 header == SatishHeader(magic, width, height, channels, version)
                 checked == _validate_header(header)
             IN  IF ~Returned(checked) THEN checked ELSE Return(header)

unpack_header(data) ==
    IF Len(data) < HEADER_SIZE
    THEN Raise("InvalidFormatError", <<"Header too short: expected HEADER_SIZE bytes, got">>, <<Len(data)>>)
    ELSE LET magic == Slice(data, 0, 4)
         IN  IF magic # MAGIC_BYTES
             THEN Raise("InvalidFormatError", <<"Invalid magic bytes: expected MAGIC_BYTES, got">>, magic)
             ELSE LET width == struct_unpack_H(Slice(data, 4, 6))
                      height == struct_unpack_H(Slice(data, 6, 8))
                      channels == struct_unpack_B(Slice(data, 8, 9))
                      version == struct_unpack_B(Slice(data, 9, 10))
                      header == SatishHeader(magic, width, height, channels, version)
                      checked == _validate_header(header)
                  IN  IF ~Returned(checked) THEN checked ELSE Return(header)

\* The size with one character per channel
calculate_pixel_data_size_per_channel(width, height, channels) == width * height * channels

calculate_pixel_data_size(width, height, channels) ==
    LET num_pixels == width * height
    IN  num_pixels * HEX_CHARS_PER_PIXEL


-----------------------------------------------------------------------------
(* Python built-ins the codec relies on.                                   *)

\* '0'..'9', 'a'..'f' for the values 0..15 (format spec 'x': lowercase).
HexDigit(d) == IF d < 10 THEN 48 + d ELSE 87 + d

RECURSIVE HexDigits(_)
\* The hexadecimal digits of n >= 0, most significant first, no padding.
HexDigits(n) ==
    IF n < 16 THEN <<HexDigit(n)>> ELSE HexDigits(n \div 16) \o <<HexDigit(n % 16)>>

\* f"{n:02x}": sign-aware zero padding to a minimum width of 2; a number
\* that needs more characters gets them.
\* f"{n:x}": no padding to two characters
format_02x_unpadded(n) == IF n < 0 THEN <<45>> \o HexDigits(-n) ELSE HexDigits(n)

format_02x(n) ==
    IF n < 0
    THEN <<45>> \o HexDigits(-n)
    ELSE LET d == HexDigits(n) IN IF Len(d) < 2 THEN <<48>> \o d ELSE d

\* The value of a hexadecimal digit character, -1 for any other character.
HexValue(c) ==
    IF 48 <= c /\ c <= 57 THEN c - 48
    ELSE IF 97 <= c /\ c <= 102 THEN c - 87
    ELSE IF 65 <= c /\ c <= 70 THEN c - 55
    ELSE -1

\* Whitespace int() strips from an ASCII string: \t \n \v \f \r and space.
IsSpace(c) == c \in {9, 10, 11, 12, 13, 32}

RECURSIVE lstrip(_)
lstrip(s) == IF s # <<>> /\ IsSpace(Head(s)) THEN lstrip(Tail(s)) ELSE s

RECURSIVE rstrip(_)
rstrip(s) == IF s # <<>> /\ IsSpace(s[Len(s)]) THEN rstrip(SubSeq(s, 1, Len(s) - 1)) ELSE s

\* Digits of an int() literal: hexadecimal digits, single underscores
\* between them only.
DigitsOK(d) ==
    /\ d # <<>>
    /\ d[1] # 95
    /\ d[Len(d)] # 95
    /\ \A i \in 1..Len(d) : d[i] = 95 \/ HexValue(d[i]) >= 0
    /\ \A i \in 1..(Len(d) - 1) : ~(d[i] = 95 /\ d[i + 1] = 95)

RECURSIVE DigitsValue(_, _)
DigitsValue(d, acc) ==
    IF d = <<>> THEN acc
    ELSE IF Head(d) = 95 THEN DigitsValue(Tail(d), acc)
    ELSE DigitsValue(Tail(d), acc * 16 + HexValue(Head(d)))

\* int(s, 16) on an ASCII string: surrounding whitespace, an optional sign,
\* an optional 0x / 0X prefix (one underscore may follow it), then the
\* digits; ValueError for anything else.
int_base16(s) ==
    With(rstrip(lstrip(s)), LAMBDA t :
    With(t # <<>> /\ t[1] = 45, LAMBDA negative :
    With(IF t # <<>> /\ t[1] \in {43, 45} THEN Tail(t) ELSE t, LAMBDA u :
    With(Len(u) >= 2 /\ u[1] = 48 /\ u[2] \in {120, 88}, LAMBDA prefixed :
    With(IF prefixed THEN Tail(Tail(u)) ELSE u, LAMBDA v :
    With(IF prefixed /\ v # <<>> /\ v[1] = 95 THEN Tail(v) ELSE v, LAMBDA d :
        IF DigitsOK(d)
        THEN Return(IF negative THEN 0 - DigitsValue(d, 0) ELSE DigitsValue(d, 0))
        ELSE Raise("ValueError", <<"invalid literal for int() with base 16">>, s)))))))

\* bytes.decode('ascii'): the same code points, UnicodeDecodeError at the
\* first byte above 127 (its value and 0-based position are reported).
decode_ascii(b) ==
    LET bad == {i \in 1..Len(b) : b[i] > 127}
    IN  IF bad = {}
        THEN Return(b)
        ELSE LET i == CHOOSE j \in bad : \A k \in bad : j <= k
             IN  Raise("UnicodeDecodeError", <<"'ascii' codec can't decode byte">>, <<b[i], i - 1>>)

RECURSIVE Join(_)
\* ''.join(strings)
Join(strings) == IF strings = <<>> THEN <<>> ELSE Head(strings) \o Join(Tail(strings))

\* A file as an operation finds it: whether the path names a regular,
\* readable file, and its bytes.
FileOf(exists, data) == [exists |-> exists, data |-> data]

\* open(path, 'rb') on a path that names nothing
FileNotFound == Raise("FileNotFoundError", <<"[Errno 2] No such file or directory">>, <<>>)

-----------------------------------------------------------------------------
(* core/encoder.py: SatishEncoder.                                         *)

_convert_pixels_to_hex(pixels) ==
    IF \E i \in 1..Len(pixels) : Len(pixels[i]) # 3
    THEN Raise("EncodingError", <<"Failed to convert pixels to hex", "not enough values to unpack">>, <<>>)
    ELSE Return([i \in 1..Len(pixels) |->
                    format_02x(pixels[i][1]) \o format_02x(pixels[i][2]) \o format_02x(pixels[i][3])])

\* The outcome and the file the call leaves behind: open(..., 'wb') creates
\* or empties the file before anything is written.
_write_satish_file(header, hex_pixels, f) ==
    With(pack_header(header), LAMBDA header_bytes :
        IF ~Returned(header_bytes)
        THEN [out |-> Wrap("FileError", "Failed to write SATISH file", header_bytes),
              file |-> FileOf(TRUE, <<>>)]
        ELSE [out |-> Return(None),
              file |-> FileOf(TRUE, header_bytes.val \o Join(hex_pixels))])

\* encode_from_array without the comparison of len(pixel_array) with
\* width * height
encode_from_array_unchecked(pixel_array, width, height, f) ==
    With(create_header(width, height, 3, CURRENT_VERSION), LAMBDA header :
    IF ~Returned(header)
    THEN [out |-> Wrap("EncodingError", "Failed to encode pixel array", header), file |-> f]
    ELSE With(_convert_pixels_to_hex(pixel_array), LAMBDA hex_pixels :
         With(_write_satish_file(header.val, hex_pixels.val, f), LAMBDA written :
             [out |-> Return(TRUE), file |-> written.file])))

\* The outcome and the file the call leaves behind.
encode_from_array(pixel_array, width, height, f) ==
    LET wrapped(e) == Wrap("EncodingError", "Failed to encode pixel array", e)
        failed(e) == [out |-> wrapped(e), file |-> f]
    IN  With(width * height, LAMBDA expected_pixels :
        IF Len(pixel_array) # expected_pixels
        THEN failed(Raise("EncodingError", <<"Pixel array size mismatch: expected, got">>,
                          <<expected_pixels, Len(pixel_array)>>))
        ELSE With(create_header(width, height, 3, CURRENT_VERSION), LAMBDA header :
        IF ~Returned(header) THEN failed(header)
        ELSE With(_convert_pixels_to_hex(pixel_array), LAMBDA hex_pixels :
        IF ~Returned(hex_pixels) THEN failed(hex_pixels)
        ELSE With(_write_satish_file(header.val, hex_pixels.val, f), LAMBDA written :
        IF ~Returned(written.out)
        THEN [out |-> wrapped(written.out), file |-> written.file]
        ELSE [out |-> Return(TRUE), file |-> written.file]))))

-----------------------------------------------------------------------------
(* core/decoder.py: SatishDecoder.                                         *)

\* _hex_to_rgb reading the components in the order blue, green, red
_hex_to_rgb_bgr(hex_color) ==
    With(int_base16(Slice(hex_color, 4, 6)), LAMBDA r :
    With(int_base16(Slice(hex_color, 2, 4)), LAMBDA g :
    With(int_base16(Slice(hex_color, 0, 2)), LAMBDA b :
        IF Returned(r) /\ Returned(g) /\ Returned(b)
        THEN Return(<<r.val, g.val, b.val>>)
        ELSE Raise("InvalidFormatError", <<"Invalid hex color">>, hex_color))))

_hex_to_rgb(hex_color) ==
    With(int_base16(Slice(hex_color, 0, 2)), LAMBDA r :
    With(int_base16(Slice(hex_color, 2, 4)), LAMBDA g :
    With(int_base16(Slice(hex_color, 4, 6)), LAMBDA b :
        IF Returned(r) /\ Returned(g) /\ Returned(b)
        THEN Return(<<r.val, g.val, b.val>>)
        ELSE Raise("InvalidFormatError", <<"Invalid hex color">>, hex_color))))

RECURSIVE parse_groups(_, _)
\* The loop of _parse_pixel_data from offset i on: the pixels, or the first
\* failure.
parse_groups(pixel_data_raw, i) ==
    IF i >= Len(pixel_data_raw) THEN Return(<<>>)
    ELSE With(Slice(pixel_data_raw, i, i + HEX_CHARS_PER_PIXEL), LAMBDA hex_color :
         IF Len(hex_color) # HEX_CHARS_PER_PIXEL
         THEN Raise("InvalidFormatError", <<"Invalid hex color length">>, hex_color)
         ELSE Try(_hex_to_rgb(hex_color), LAMBDA rgb :
              Try(parse_groups(pixel_data_raw, i + HEX_CHARS_PER_PIXEL), LAMBDA rest :
                  Return(<<rgb>> \o rest))))

_parse_pixel_data(pixel_data_raw) ==
    Except(parse_groups(pixel_data_raw, 0),
           LAMBDA e : Wrap("DecodingError", "Failed to parse pixel data", e))

_load_satish_file(f) ==
    Except(
        IF ~f.exists THEN FileNotFound
        ELSE Try(unpack_header(Slice(f.data, 0, HEADER_SIZE)), LAMBDA header :
             Try(decode_ascii(Slice(f.data, HEADER_SIZE, Len(f.data))), LAMBDA pixel_data_raw :
             With(calculate_pixel_data_size(header.width, header.height, header.channels),
                  LAMBDA expected_size :
             IF Len(pixel_data_raw) # expected_size
             THEN Raise("InvalidFormatError", <<"Pixel data size mismatch: expected, got">>,
                        <<expected_size, Len(pixel_data_raw)>>)
             ELSE Try(_parse_pixel_data(pixel_data_raw), LAMBDA pixels :
                  With(header.width * header.height, LAMBDA expected_pixels :
                  IF Len(pixels) # expected_pixels
                  THEN Raise("InvalidFormatError", <<"Pixel count mismatch: expected, got">>,
                             <<expected_pixels, Len(pixels)>>)
                  ELSE Return([header |-> header, pixels |-> pixels])))))),
        LAMBDA e :
            IF e.exc \in InvalidFormatErrors \cup {"DecodingError"} THEN e
            ELSE Wrap("DecodingError", "Failed to load SATISH file", e))

decode_to_array(f) ==
    Except(
        Try(_load_satish_file(f), LAMBDA satish_data :
            Return(<<satish_data.pixels, satish_data.header.width, satish_data.header.height>>)),
        LAMBDA e : Wrap("DecodingError", "Failed to decode to array", e))

\* get_satish_info raising when the pixel data has not the expected size
get_satish_info_strict(f) ==
    Except(
        IF ~f.exists THEN FileNotFound
        ELSE Try(unpack_header(Slice(f.data, 0, HEADER_SIZE)), LAMBDA header :
             Try(decode_ascii(Slice(f.data, HEADER_SIZE, Len(f.data))), LAMBDA pixel_data_raw :
             IF Len(pixel_data_raw) # calculate_pixel_data_size(header.width, header.height, header.channels)
             THEN Raise("InvalidFormatError", <<"Pixel data size mismatch: expected, got">>, <<>>)
             ELSE Return([file_size |-> Len(f.data),
                          header |-> header,
                          pixel_count |-> header.width * header.height,
                          pixel_data_size |-> [expected |-> Len(pixel_data_raw),
                                               actual |-> Len(pixel_data_raw),
                                               valid |-> TRUE],
                          channel_format |-> "RGB"]))),
        LAMBDA e : Wrap("FileError", "Failed to read SATISH file info", e))

\* The file_path entry of the record is left out: there is one path.
get_satish_info(f) ==
    Except(
        IF ~f.exists THEN FileNotFound
        ELSE Try(unpack_header(Slice(f.data, 0, HEADER_SIZE)), LAMBDA header :
             With(Len(f.data), LAMBDA file_size :
             With(calculate_pixel_data_size(header.width, header.height, header.channels),
                  LAMBDA expected_pixel_size :
             With(file_size - HEADER_SIZE, LAMBDA actual_pixel_size :
                 Return([file_size |-> file_size,
                         header |-> header,
                         pixel_count |-> header.width * header.height,
                         pixel_data_size |-> [expected |-> expected_pixel_size,
                                              actual |-> actual_pixel_size,
                                              valid |-> expected_pixel_size = actual_pixel_size],
                         channel_format |-> IF header.channels \in SUPPORTED_CHANNELS
                                            THEN "RGB" ELSE "Unknown"]))))),
        LAMBDA e : Wrap("FileError", "Failed to read SATISH file info", e))

-----------------------------------------------------------------------------
(* core/validator.py: SatishValidator.                                     *)

\* A message: the chain of its fixed parts and the values formatted into it.
Msg(text, data) == [text |-> text, data |-> data]

\* f"<prefix>: {str(e)}" for a raised exception e
MsgOf(prefix, e) == Msg(<<prefix>> \o e.text, e.data)

\* d[k] = v on a dict
SetItem(d, k, v) == [x \in (DOMAIN d) \cup {k} |-> IF x = k THEN v ELSE d[x]]

\* An error that is not written down
AddError_ignored(results, m) == results

AddError(results, m) == [results EXCEPT !.errors = Append(@, m)]

AddWarning(results, m) == [results EXCEPT !.warnings = Append(@, m)]

SetInfo(results, k, v) == [results EXCEPT !.info = SetItem(@, k, v)]

\* What a stage hands back: the results it updated and the exception it
\* raised, if any.
Stage(results, exc) == [results |-> results, exc |-> exc]

\* str.lower() on ASCII
lower(str) == [i \in 1..Len(str) |-> IF 65 <= str[i] /\ str[i] <= 90 THEN str[i] + 32 ELSE str[i]]

SATISH_SUFFIX == <<46, 115, 97, 116, 105, 115, 104>>      \* ".satish"

validate_header_data(header) ==
    (IF header.magic # MAGIC_BYTES
     THEN <<Msg(<<"Invalid magic bytes">>, header.magic)>> ELSE <<>>)
    \o (IF ~(1 <= header.width /\ header.width <= MAX_WIDTH)
        THEN <<Msg(<<"Invalid width">>, <<header.width>>)>> ELSE <<>>)
    \o (IF ~(1 <= header.height /\ header.height <= MAX_HEIGHT)
        THEN <<Msg(<<"Invalid height">>, <<header.height>>)>> ELSE <<>>)
    \o (IF header.channels \notin SUPPORTED_CHANNELS
        THEN <<Msg(<<"Unsupported channels">>, <<header.channels>>)>> ELSE <<>>)
    \o (IF header.version < 1
        THEN <<Msg(<<"Invalid version">>, <<header.version>>)>> ELSE <<>>)
    \o (IF header.version > CURRENT_VERSION
        THEN <<Msg(<<"Unsupported version: (current: CURRENT_VERSION)">>, <<header.version>>)>>
        ELSE <<>>)

validate_hex_string(hex_string, expected_length) ==
    (IF Len(hex_string) # expected_length
     THEN <<Msg(<<"Invalid hex string length: expected, got">>,
                <<expected_length, Len(hex_string)>>)>>
     ELSE <<>>)
    \o (IF ~Returned(int_base16(hex_string))
        THEN <<Msg(<<"Invalid hex characters in">>, hex_string)>> ELSE <<>>)

RECURSIVE scan_pixels(_, _, _)
\* The loop of validate_pixel_array from the i-th pixel on, with the errors
\* collected so far.  An entry that is not a 3-element tuple is recorded and
\* the loop continues with the next entry, before the test on the number of
\* errors; that test ends the loop with the marker.
scan_pixels(pixels, i, errors) ==
    IF i > Len(pixels) THEN errors
    ELSE IF Len(pixels[i]) # 3
    THEN scan_pixels(pixels, i + 1,
             Append(errors, Msg(<<"Invalid pixel format at index">>, <<i - 1>>)))
    ELSE With(IF \A k \in 1..3 : pixels[i][k] \in 0..255
              THEN errors
              ELSE Append(errors, Msg(<<"Invalid RGB values at index">>, <<i - 1>>)),
         LAMBDA checked :
             IF Len(checked) > 10
             THEN Append(checked,
                      Msg(<<"... (too many pixel errors, stopping validation)">>, <<>>))
             ELSE scan_pixels(pixels, i + 1, checked))

\* SatishValidator.validate_pixel_array(pixels, width, height)
validate_pixel_array(pixels, width, height) ==
    scan_pixels(pixels, 1,
        IF Len(pixels) # width * height
        THEN <<Msg(<<"Pixel count mismatch: expected, got">>,
                   <<width * height, Len(pixels)>>)>>
        ELSE <<>>)

\* _validate_file_access without the minimum size
_validate_file_access_no_minimum(f, results) ==
    IF ~f.exists
    THEN AddError(results, Msg(<<"File does not exist">>, <<>>))
    ELSE SetInfo(results, "file_size", Len(f.data))

\* os.path.exists / isfile / os.access(R_OK) are folded into f.exists.
_validate_file_access(f, results) ==
    IF ~f.exists
    THEN AddError(results, Msg(<<"File does not exist">>, <<>>))
    ELSE With(Len(f.data), LAMBDA file_size :
         With(SetInfo(results, "file_size", file_size), LAMBDA sized :
             IF file_size < HEADER_SIZE
             THEN AddError(sized, Msg(<<"File too small: bytes (minimum: HEADER_SIZE)">>, <<file_size>>))
             ELSE sized))

\* _validate_file_extension reporting an unexpected suffix as an error
_validate_file_extension_strict(suffix, results) ==
    IF lower(suffix) # SATISH_SUFFIX
    THEN AddError(results, Msg(<<"Unexpected file extension: (expected: .satish)">>, suffix))
    ELSE results

_validate_file_extension(suffix, results) ==
    IF lower(suffix) # SATISH_SUFFIX
    THEN AddWarning(results, Msg(<<"Unexpected file extension: (expected: .satish)">>, suffix))
    ELSE results

_validate_file_structure(f, results) ==
    LET file_size == Len(f.data)
        pixel_data_size == file_size - HEADER_SIZE
    IN  IF ~f.exists
        THEN Stage(results, Wrap("FileError", "File structure validation failed", FileNotFound))
        ELSE IF file_size < HEADER_SIZE
        THEN Stage(AddError(results, Msg(<<"File too small for valid SATISH format">>, <<>>)), None)
        ELSE IF pixel_data_size % HEX_CHARS_PER_PIXEL # 0
        THEN Stage(AddWarning(results, Msg(<<"Pixel data size not aligned to pixel boundaries">>, <<>>)), None)
        ELSE Stage(results, None)

\* SatishValidator._validate_header: the stage's results, the exception it
\* raised and the header it returned (None when it returned none).
SatishValidator_validate_header(f, results) ==
    LET stage(r, exc, header) == [results |-> r, exc |-> exc, header |-> header]
    IN  IF ~f.exists
        THEN stage(results, Wrap("FileError", "Could not read header", FileNotFound), None)
        ELSE With(Slice(f.data, 0, HEADER_SIZE), LAMBDA header_data :
        IF Len(header_data) < HEADER_SIZE
        THEN stage(results,
                   Raise("HeaderError",
                         <<"Invalid header field", "Incomplete header: got bytes, expected HEADER_SIZE">>,
                         <<Len(header_data)>>),
                   None)
        ELSE With(unpack_header(header_data), LAMBDA unpacked :
        IF ~Returned(unpacked)
        THEN stage(AddError(results, MsgOf("Header validation failed", unpacked)), None, None)
        ELSE With(unpacked.val, LAMBDA header :
             With(validate_header_data(header), LAMBDA header_errors :
                 stage(SetInfo([results EXCEPT !.errors = @ \o header_errors], "header",
                               [magic |-> header.magic, width |-> header.width,
                                height |-> header.height, channels |-> header.channels,
                                version |-> header.version]),
                       None,
                       IF header_errors = <<>> THEN header ELSE None)))))

RECURSIVE sample_errors_no_break(_, _)
\* The sampling loop without its break: the errors of every sampled group
sample_errors_no_break(sample_hex, i) ==
    IF i >= Len(sample_hex) THEN <<>>
    ELSE With(Slice(sample_hex, i, i + HEX_CHARS_PER_PIXEL), LAMBDA hex_pixel :
         With(IF Len(hex_pixel) = HEX_CHARS_PER_PIXEL
              THEN validate_hex_string(hex_pixel, HEX_CHARS_PER_PIXEL) ELSE <<>>,
              LAMBDA hex_errors :
             [k \in 1..Len(hex_errors) |->
                 Msg(<<"Pixel">> \o hex_errors[k].text,
                     <<i \div HEX_CHARS_PER_PIXEL>> \o hex_errors[k].data)]
             \o sample_errors_no_break(sample_hex, i + HEX_CHARS_PER_PIXEL)))

RECURSIVE sample_errors(_, _)
\* The sampling loop of _validate_pixel_data from offset i on: the errors
\* of the first sampled group that has any.
sample_errors(sample_hex, i) ==
    IF i >= Len(sample_hex) THEN <<>>
    ELSE With(Slice(sample_hex, i, i + HEX_CHARS_PER_PIXEL), LAMBDA hex_pixel :
         With(IF Len(hex_pixel) = HEX_CHARS_PER_PIXEL
              THEN validate_hex_string(hex_pixel, HEX_CHARS_PER_PIXEL) ELSE <<>>,
              LAMBDA hex_errors :
         IF hex_errors # <<>>
         THEN [k \in 1..Len(hex_errors) |->
                  Msg(<<"Pixel">> \o hex_errors[k].text,
                      <<i \div HEX_CHARS_PER_PIXEL>> \o hex_errors[k].data)]
         ELSE sample_errors(sample_hex, i + HEX_CHARS_PER_PIXEL)))

_validate_pixel_data(f, header, results) ==
    IF ~f.exists
    THEN Stage(results, Wrap("FileError", "Could not read pixel data", FileNotFound))
    ELSE With(Slice(f.data, HEADER_SIZE, Len(f.data)), LAMBDA pixel_data_raw :
         With(calculate_pixel_data_size(header.width, header.height, header.channels),
              LAMBDA expected_size :
         IF Len(pixel_data_raw) # expected_size
         THEN Stage(results,
                    Raise("PixelDataError",
                          <<"Pixel data error", "Pixel data size mismatch: expected, got">>,
                          <<expected_size, Len(pixel_data_raw)>>))
         ELSE With(decode_ascii(pixel_data_raw), LAMBDA pixel_hex :
         IF ~Returned(pixel_hex)
         THEN Stage(results,
                    Raise("PixelDataError",
                          <<"Pixel data error", "Pixel data contains non-ASCII characters">>
                              \o pixel_hex.text,
                          pixel_hex.data))
         ELSE With(IF Len(pixel_hex.val) < 60 THEN Len(pixel_hex.val) ELSE 60, LAMBDA sample_size :
              With(Slice(pixel_hex.val, 0, sample_size), LAMBDA sample_hex :
              With([results EXCEPT !.errors = @ \o sample_errors(sample_hex, 0)], LAMBDA sampled :
                  Stage(SetInfo(SetInfo(sampled, "pixel_data_size", Len(pixel_data_raw)),
                                "pixel_count", header.width * header.height),
                        None)))))))

_validate_integrity(header, results) ==
    IF "file_size" \notin DOMAIN results.info
    THEN AddWarning(results, Msg(<<"Integrity check failed", "'file_size'">>, <<>>))
    ELSE With(HEADER_SIZE + calculate_pixel_data_size(header.width, header.height, header.channels),
              LAMBDA expected_file_size :
         With(results.info["file_size"], LAMBDA actual_file_size :
         With(IF expected_file_size # actual_file_size
              THEN AddError(results, Msg(<<"File size mismatch: expected, got">>,
                                         <<expected_file_size, actual_file_size>>))
              ELSE results,
              LAMBDA compared :
             SetInfo(compared, "integrity",
                     [expected_size |-> expected_file_size,
                      actual_size |-> actual_file_size,
                      size_match |-> expected_file_size = actual_file_size]))))

\* quick_validate that also compares the size of the pixel data
quick_validate_with_size(f) ==
    IF ~f.exists \/ Len(f.data) < HEADER_SIZE THEN Return(FALSE)
    ELSE With(unpack_header(Slice(f.data, 0, HEADER_SIZE)), LAMBDA header :
         IF ~Returned(header) THEN Return(FALSE)
         ELSE Return(Len(f.data) - HEADER_SIZE
                         = calculate_pixel_data_size(header.val.width, header.val.height,
                                                     header.val.channels)))

quick_validate(f) ==
    IF ~f.exists THEN Return(FALSE)
    ELSE With(Len(f.data), LAMBDA file_size :
         IF file_size < HEADER_SIZE THEN Return(FALSE)
         ELSE With(unpack_header(Slice(f.data, 0, HEADER_SIZE)), LAMBDA header :
              IF ~Returned(header) THEN Return(FALSE)
              ELSE IF header.val.magic # MAGIC_BYTES THEN Return(FALSE)
              ELSE IF header.val.channels \notin SUPPORTED_CHANNELS THEN Return(FALSE)
              ELSE Return(TRUE)))

\* valid also asks for no warnings
is_valid_without_warnings(results) == Len(results.errors) = 0 /\ Len(results.warnings) = 0

\* results['valid'] = len(results['errors']) == 0
is_valid(results) == Len(results.errors) = 0

\* validate_file(file_path): fa, fs, fh and fp are the file as the Access,
\* Structure, Header and PixelData stages find it (each stage looks at the
\* path anew), suffix is the suffix of file_path.
validate_file(fa, fs, fh, fp, suffix) ==
    LET failed(st) == AddError(st.results, MsgOf("Validation failed", st.exc))
    IN  With(_validate_file_access(fa,
                 [valid |-> FALSE, errors |-> <<>>, warnings |-> <<>>, info |-> <<>>]),
             LAMBDA accessed :
        IF accessed.errors # <<>> THEN accessed
        ELSE With(_validate_file_structure(fs, _validate_file_extension(suffix, accessed)),
                  LAMBDA structure :
        IF structure.exc # None THEN failed(structure)
        ELSE With(SatishValidator_validate_header(fh, structure.results), LAMBDA head :
        IF head.exc # None THEN failed(head)
        ELSE IF head.header = None THEN head.results
        ELSE With(_validate_pixel_data(fp, head.header, head.results), LAMBDA pixel :
        IF pixel.exc # None THEN failed(pixel)
        ELSE With(_validate_integrity(head.header, pixel.results), LAMBDA integrity :
            [integrity EXCEPT !.valid = is_valid(integrity)])))))

-----------------------------------------------------------------------------
(* The header functions applied to inputs drawn from bounded sets.         *)

\* Widths and heights handed to create_header: both limits and their
\* neighbours, and a value whose two bytes differ.
SampleDims == {0, 1, 256, 65535, 65536}

SampleChannels == {0, 3, 4}

SampleVersions == {0, 1, 2, 255, 256}

\* Byte strings handed to unpack_header: every combination of the sampled
\* field bytes, cut short and with a byte following.
SampleMagics == {MAGIC_BYTES, <<83, 65, 84, 88>>}

SampleWidthBytes == {<<0, 0>>, <<0, 1>>, <<1, 0>>, <<255, 255>>}

SampleHeightBytes == {<<0, 0>>, <<0, 2>>, <<2, 1>>}

SampleChannelBytes == {0, 3, 4}

SampleVersionBytes == {0, 1, 2, 255}

SampleCuts == {0, 4, 9}

FullHeaders ==
    {m \o w \o h \o <<c, v>> :
        m \in SampleMagics, w \in SampleWidthBytes, h \in SampleHeightBytes,
        c \in SampleChannelBytes, v \in SampleVersionBytes}

HeaderInputs ==
    FullHeaders
        \cup {Slice(b, 0, n) : b \in FullHeaders, n \in SampleCuts}
        \cup {b \o <<102>> : b \in FullHeaders}

NoFile ==
    /\ fileExists = FALSE
    /\ fileData = <<>>
    /\ encoded = None
    /\ tampered = FALSE

HeaderInit ==
    /\ NoFile
    /\ Idle
    /\ Idle
    /\ hdr = None
    /\ packed = <<>>
    /\ op = "init"
    /\ arg = <<>>
    /\ ret = Return(None)

\* SatishFormat.create_header(width, height, channels, version)
CreateHeader(width, height, channels, version) ==
    LET r == create_header(width, height, channels, version)
    IN  /\ op' = "create_header"
        /\ arg' = <<width, height, channels, version>>
        /\ ret' = r
        /\ hdr' = IF Returned(r) THEN r.val ELSE None
        /\ packed' = <<>>
        /\ UNCHANGED <<fileVars, stepVars>>

\* SatishFormat.pack_header(header) on the header the caller holds
PackHeader ==
    /\ hdr # None
    /\ LET r == pack_header(hdr)
       IN  /\ op' = "pack_header"
           /\ arg' = hdr
           /\ ret' = r
           /\ packed' = IF Returned(r) THEN r.val ELSE <<>>
    /\ UNCHANGED <<hdr, fileVars, stepVars>>

\* SatishFormat.unpack_header(data) on the bytes pack_header produced
UnpackPacked ==
    /\ packed # <<>>
    /\ op' = "unpack_header"
    /\ arg' = packed
    /\ ret' = unpack_header(packed)
    /\ UNCHANGED <<headerVars, fileVars, stepVars>>

\* SatishFormat.unpack_header(data) on bytes from anywhere
UnpackHeader(data) ==
    LET r == unpack_header(data)
    IN  /\ op' = "unpack_header"
        /\ arg' = data
        /\ ret' = r
        /\ hdr' = IF Returned(r) THEN r.val ELSE None
        /\ packed' = <<>>
        /\ UNCHANGED <<fileVars, stepVars>>

HeaderNext ==
    \/ \E w \in SampleDims, h \in SampleDims, c \in SampleChannels, v \in SampleVersions :
          CreateHeader(w, h, c, v)
    \/ PackHeader
    \/ UnpackPacked
    \/ \E data \in HeaderInputs : UnpackHeader(data)

HeaderSpec == HeaderInit /\ [][HeaderNext]_vars


-----------------------------------------------------------------------------
(* The codec at work on one path: encodes, a foreign change to the file,   *)
(* decodes and validations.                                                *)

\* Longest pixel array handed to the encoder.
MaxPixels == 4

\* Pixels handed to the encoder: white, and one whose components need zero
\* padding and letters.
SamplePixels == {<<255, 255, 255>>, <<0, 10, 171>>}

\* Pixels with a component outside 0..255, handed over one at a time.
OddPixels == {<<256, 0, 0>>, <<-1, 0, 0>>}

SampleSizes == {0, 1, 2}

PixelArrays ==
    UNION {[1..n -> SamplePixels] : n \in 0..MaxPixels} \cup {<<p>> : p \in OddPixels}

\* Bytes a foreign writer puts into the file: NUL, 'F', 'z' and a byte
\* that is not ASCII.
SampleBytes == {0, 70, 122, 128}

\* ".satish", ".SATISH" and ".png"
SampleSuffixes ==
    {SATISH_SUFFIX, <<46, 83, 65, 84, 73, 83, 72>>, <<46, 112, 110, 103>>}

\* Headers a foreign writer puts on the file: width 0 with 4 channels,
\* height 0 with version 2, version 2 alone, version 0, another magic, and
\* a correct 2x2 header.
SampleHeaders ==
    {<<83, 65, 84, 73, 0, 0, 0, 1, 4, 1>>,
     <<83, 65, 84, 73, 0, 1, 0, 0, 3, 2>>,
     <<83, 65, 84, 73, 0, 1, 0, 1, 3, 2>>,
     <<83, 65, 84, 73, 0, 1, 0, 1, 3, 0>>,
     <<83, 65, 84, 88, 0, 1, 0, 1, 3, 1>>,
     <<83, 65, 84, 73, 0, 2, 0, 2, 3, 1>>}

TheFile == FileOf(fileExists, fileData)

Init ==
    /\ NoFile
    /\ Idle
    /\ hdr = None
    /\ packed = <<>>
    /\ op = "init"
    /\ arg = <<>>
    /\ ret = Return(None)

\* SatishEncoder.encode_from_array(pixel_array, width, height, output_path)
EncodeFromArray(pixel_array, width, height) ==
    /\ ~tampered
    /\ LET r == encode_from_array(pixel_array, width, height, TheFile)
       IN  /\ op' = "encode_from_array"
           /\ arg' = <<Len(pixel_array), width, height>>
           /\ ret' = r.out
           /\ fileExists' = r.file.exists
           /\ fileData' = r.file.data
           /\ encoded' = IF Returned(r.out)
                         THEN [pixels |-> pixel_array, width |-> width, height |-> height]
                         ELSE IF r.file = TheFile THEN encoded ELSE None
    /\ UNCHANGED <<tampered, headerVars, stepVars>>

ForeignWrite(data) ==
    /\ fileExists
    /\ ~tampered
    /\ data # fileData
    /\ fileData' = data
    /\ tampered' = TRUE
    /\ op' = "foreign_write"
    /\ arg' = <<>>
    /\ ret' = Return(None)
    /\ UNCHANGED <<fileExists, encoded, headerVars, stepVars>>

\* Someone else cuts the last byte off the file.
TruncateLast ==
    /\ fileData # <<>>
    /\ ForeignWrite(SubSeq(fileData, 1, Len(fileData) - 1))

\* Someone else appends a byte to the file.
AppendByte(b) == ForeignWrite(Append(fileData, b))

\* Someone else overwrites one byte of the file.
OverwriteByte(i, b) ==
    /\ i \in 1..Len(fileData)
    /\ ForeignWrite([fileData EXCEPT ![i] = b])

\* Someone else leaves only the first n bytes of the file.
CutTo(n) ==
    /\ n < Len(fileData)
    /\ ForeignWrite(SubSeq(fileData, 1, n))

\* Someone else puts another header in front of the pixel data.
ReplaceHeader(h) ==
    /\ Len(fileData) >= HEADER_SIZE
    /\ ForeignWrite(h \o SubSeq(fileData, HEADER_SIZE + 1, Len(fileData)))

\* SatishDecoder._load_satish_file(satish_path)
LoadSatishFile ==
    /\ op' = "_load_satish_file"
    /\ arg' = <<>>
    /\ ret' = _load_satish_file(TheFile)
    /\ UNCHANGED <<fileVars, headerVars, stepVars>>

\* SatishDecoder.decode_to_array(satish_path)
DecodeToArray ==
    /\ op' = "decode_to_array"
    /\ arg' = <<>>
    /\ ret' = decode_to_array(TheFile)
    /\ UNCHANGED <<fileVars, headerVars, stepVars>>

\* SatishDecoder.get_satish_info(satish_path)
GetSatishInfo ==
    /\ op' = "get_satish_info"
    /\ arg' = <<>>
    /\ ret' = get_satish_info(TheFile)
    /\ UNCHANGED <<fileVars, headerVars, stepVars>>

\* SatishValidator.quick_validate(file_path)
QuickValidate ==
    /\ op' = "quick_validate"
    /\ arg' = <<>>
    /\ ret' = quick_validate(TheFile)
    /\ UNCHANGED <<fileVars, headerVars, stepVars>>

\* SatishValidator.validate_file(file_path), the file not changing meanwhile
ValidateFile(suffix) ==
    /\ op' = "validate_file"
    /\ arg' = suffix
    /\ ret' = Return(validate_file(TheFile, TheFile, TheFile, TheFile, suffix))
    /\ UNCHANGED <<fileVars, headerVars, stepVars>>

Next ==
    \/ \E pixel_array \in PixelArrays, width \in SampleSizes, height \in SampleSizes :
          EncodeFromArray(pixel_array, width, height)
    \/ TruncateLast
    \/ \E b \in SampleBytes : AppendByte(b)
    \/ \E i \in 1..Len(fileData), b \in SampleBytes : OverwriteByte(i, b)
    \/ \E n \in SampleCuts : CutTo(n)
    \/ \E h \in SampleHeaders : ReplaceHeader(h)
    \/ LoadSatishFile
    \/ DecodeToArray
    \/ GetSatishInfo
    \/ QuickValidate
    \/ \E suffix \in SampleSuffixes : ValidateFile(suffix)

Spec == Init /\ [][Next]_vars

-----------------------------------------------------------------------------
(* Files longer than the validator's sample: encoding a row of pixels,     *)
(* pixel groups overwritten by someone else, validating and decoding.      *)

\* The longest row of pixels encoded
MaxGroups == 12

\* The most pixel groups of one file that are overwritten
MaxCorrupted == 3

\* Widths of the rows: within the sample of 10 groups, one group beyond
\* it, and the longest row
LongWidths == {9, 11, MaxGroups}

\* A row of n pixels
LongPixels(n) == [i \in 1..n |-> IF i % 2 = 1 THEN <<255, 255, 255>> ELSE <<0, 10, 171>>]

\* "zzzzzz"
MalformedGroup == <<122, 122, 122, 122, 122, 122>>

\* The number of 6-byte groups after the header
GroupCount(data) == (Len(data) - HEADER_SIZE) \div HEX_CHARS_PER_PIXEL

\* The g-th group of the pixel data, g counted from 0
Group(data, g) ==
    SubSeq(data, HEADER_SIZE + g * HEX_CHARS_PER_PIXEL + 1,
           HEADER_SIZE + (g + 1) * HEX_CHARS_PER_PIXEL)

\* The groups that hold a character other than 0-9, a-f, A-F
MalformedGroups(data) ==
    {g \in 0..(GroupCount(data) - 1) :
        \E k \in 1..HEX_CHARS_PER_PIXEL :
            Group(data, g)[k] \notin (48..57) \cup (97..102) \cup (65..70)}

\* SatishEncoder.encode_from_array(LongPixels(width), width, 1, output_path)
EncodeRow(width) ==
    LET r == encode_from_array(LongPixels(width), width, 1, TheFile)
    IN  /\ op' = "encode_from_array"
        /\ arg' = <<>>
        /\ ret' = r.out
        /\ fileExists' = r.file.exists
        /\ fileData' = r.file.data
        /\ encoded' = [pixels |-> LongPixels(width), width |-> width, height |-> 1]
        /\ tampered' = FALSE
        /\ UNCHANGED <<headerVars, stepVars>>

\* Someone else overwrites the g-th pixel group with "zzzzzz".
CorruptGroup(g) ==
    /\ fileExists
    /\ g < GroupCount(fileData)
    /\ g \notin MalformedGroups(fileData)
    /\ Cardinality(MalformedGroups(fileData)) < MaxCorrupted
    /\ fileData' = [i \in 1..Len(fileData) |->
                       IF (i - HEADER_SIZE - 1) \div HEX_CHARS_PER_PIXEL = g /\ i > HEADER_SIZE
                       THEN 122 ELSE fileData[i]]
    /\ tampered' = TRUE
    /\ op' = "foreign_write"
    /\ arg' = <<>>
    /\ ret' = Return(None)
    /\ UNCHANGED <<fileExists, encoded, headerVars, stepVars>>

SamplingNext ==
    \/ \E width \in LongWidths : EncodeRow(width)
    \/ \E g \in 0..(MaxGroups - 1) : CorruptGroup(g)
    \/ LoadSatishFile
    \/ ValidateFile(SATISH_SUFFIX)

SamplingSpec == Init /\ [][SamplingNext]_vars

-----------------------------------------------------------------------------
(* The validator's helper checks as pure functions of their arguments.     *)

MaxEntries == 13

\* Characters of the sample strings: f 0 z, sign, space, newline, x, _
SampleFirstChars == {102, 48, 122, 45, 43, 32}
SampleSecondChars == {102, 120, 95}
SampleLastChars == {102, 70, 32, 10, 95}

Repeat(x, n) == [i \in 1..n |-> x]

\* Strings handed to validate_hex_string: 6 characters with a chosen first,
\* second and last one, and runs of "f" of other lengths.
SampleHexStrings ==
    {<<a, b, 102, 102, 102, c>> :
        a \in SampleFirstChars, b \in SampleSecondChars, c \in SampleLastChars}
    \cup {Repeat(102, n) : n \in {0, 5, 7}}

\* Entries handed to validate_pixel_array: a pixel, a pixel with a component
\* out of range, a 2-element tuple.
GoodEntry == <<255, 0, 171>>
RangeEntry == <<300, 0, 0>>
ShortEntry == <<1, 2>>

\* Lists of at most MaxEntries entries: a run of one kind of bad entry, then
\* a run of the other, then well-formed pixels.
SamplePixelLists ==
    {Repeat(first, k) \o Repeat(second, m) \o Repeat(GoodEntry, g) :
        first \in {ShortEntry, RangeEntry},
        second \in {ShortEntry, RangeEntry},
        k \in 0..MaxEntries, m \in {0, 1, 2}, g \in {0, 1}}

\* SatishValidator().validate_hex_string(hex_string)
ValidateHexString(hex_string) ==
    /\ op' = "validate_hex_string"
    /\ arg' = hex_string
    /\ ret' = Return(validate_hex_string(hex_string, HEX_CHARS_PER_PIXEL))
    /\ UNCHANGED <<fileVars, headerVars, stepVars>>

\* SatishValidator().validate_pixel_array(pixels, width, height)
ValidatePixelArray(pixels, width, height) ==
    /\ op' = "validate_pixel_array"
    /\ arg' = <<pixels, width, height>>
    /\ ret' = Return(validate_pixel_array(pixels, width, height))
    /\ UNCHANGED <<fileVars, headerVars, stepVars>>

HelperNext ==
    \/ \E hex_string \in SampleHexStrings : ValidateHexString(hex_string)
    \/ \E pixels \in SamplePixelLists :
           /\ Len(pixels) <= MaxEntries
           /\ \E height \in {Len(pixels), Len(pixels) + 1} :
                  ValidatePixelArray(pixels, 1, height)

HelperSpec == HeaderInit /\ [][HelperNext]_vars

-----------------------------------------------------------------------------
(* The operations step by step: every open(), what runs while the handle   *)
(* is held, and the writes of other processes in between.                  *)

\* A with block whose handle stays open when the block is left
with_exit_leaked(handles_) == handles_

\* Leaving a "with open(...) as f" block, by its end, a return or a raise:
\* the handle is closed.
with_exit(handles_) == handles_ - 1

\* The 1x1 file of a white pixel, and what other processes put on the path:
\* 16 bytes "z", a good 1x1 header with the group "zzzzzz", the header
\* "SATX..." with the group "ffffff", the 4 bytes "SATI".
WhiteFile == <<83, 65, 84, 73, 0, 1, 0, 1, 3, 1, 102, 102, 102, 102, 102, 102>>
RaceFiles ==
    { [i \in 1..16 |-> 122],
      <<83, 65, 84, 73, 0, 1, 0, 1, 3, 1, 122, 122, 122, 122, 122, 122>>,
      <<83, 65, 84, 88, 0, 1, 0, 1, 3, 1, 102, 102, 102, 102, 102, 102>>,
      <<83, 65, 84, 73>>,
      WhiteFile }

NoResults == [valid |-> FALSE, errors |-> <<>>, warnings |-> <<>>, info |-> <<>>]

\* validate_file returns once the stages that produced snaps have run: Access
\* left errors, Structure or Header raised, or Header returned no header.
validate_returns_after(snaps) ==
    IF Len(snaps) = 1 THEN _validate_file_access(snaps[1], NoResults).errors # <<>>
    ELSE IF Len(snaps) = 2 THEN _validate_file_structure(snaps[2], NoResults).exc # None
    ELSE IF Len(snaps) = 3
    THEN With(SatishValidator_validate_header(snaps[3], NoResults), LAMBDA head :
             head.exc # None \/ head.header = None)
    ELSE TRUE

\* The results of validate_file when its stages found the file as in snaps
\* (a stage that did not run found nothing).
validate_snapshots(snaps, suffix) ==
    With(Len(snaps), LAMBDA n :
        validate_file(snaps[1], snaps[IF n < 2 THEN n ELSE 2],
                      snaps[IF n < 3 THEN n ELSE 3], snaps[IF n < 4 THEN n ELSE 4], suffix))

\* Another process rewrites the file, whatever this program is doing.
Rewrite(data) ==
    /\ fileExists
    /\ data # fileData
    /\ fileData' = data
    /\ tampered' = TRUE
    /\ history' = IF pc = "idle" THEN history ELSE history \cup {FileOf(TRUE, data)}
    /\ UNCHANGED <<fileExists, encoded, headerVars, op, arg, ret, pc, handles, snap>>

\* encode_from_array up to open(output_path, 'wb') in _write_satish_file:
\* the checks, the header, the hex text; the open creates or empties the file.
EncodeOpen(pixel_array, width, height) ==
    /\ pc = "idle"
    /\ LET r == encode_from_array(pixel_array, width, height, TheFile)
       IN  /\ op' = "encode_from_array"
           /\ arg' = <<Len(pixel_array), width, height>>
           /\ IF Returned(r.out)
              THEN /\ fileExists' = TRUE
                   /\ fileData' = <<>>
                   /\ encoded' = None
                   /\ tampered' = FALSE
                   /\ handles' = handles + 1
                   /\ pc' = "write"
                   /\ snap' = <<r.file, [pixels |-> pixel_array, width |-> width,
                                         height |-> height]>>
                   /\ history' = {FileOf(TRUE, <<>>)}
                   /\ ret' = Return(None)
              ELSE /\ ret' = r.out
                   /\ snap' = <<>>
                   /\ history' = {TheFile}
                   /\ UNCHANGED <<fileVars, handles, pc>>
    /\ UNCHANGED headerVars

\* The two f.write calls and the end of the with block; a write the system
\* refuses raises OSError inside the block.
EncodeWrite(written) ==
    /\ pc = "write"
    /\ IF written
       THEN /\ fileData' = snap[1].data \o SubSeq(fileData, Len(snap[1].data) + 1, Len(fileData))
            /\ encoded' = snap[2]
            /\ ret' = Return(TRUE)
       ELSE /\ ret' = Wrap("EncodingError", "Failed to encode pixel array",
                           Raise("FileError", <<"Failed to write SATISH file", "OSError">>, <<>>))
            /\ UNCHANGED <<fileData, encoded>>
    /\ history' = history \cup {FileOf(TRUE, fileData')}
    /\ handles' = with_exit(handles)
    /\ pc' = "idle"
    /\ UNCHANGED <<fileExists, tampered, headerVars, op, arg, snap>>

ReadOperations == {"_load_satish_file", "get_satish_info", "quick_validate"}

\* What runs inside the with block of a reading operation
ReadBodyOf(operation, f) ==
    IF operation = "_load_satish_file" THEN _load_satish_file(f)
    ELSE IF operation = "get_satish_info" THEN get_satish_info(f)
    ELSE quick_validate(f)

\* _load_satish_file, get_satish_info, quick_validate up to open(path, 'rb'):
\* on a path that names nothing the operation ends here, without a handle.
ReadOpen(operation) ==
    /\ pc = "idle"
    /\ op' = operation
    /\ arg' = <<>>
    /\ snap' = <<>>
    /\ history' = {TheFile}
    /\ IF fileExists
       THEN /\ handles' = handles + 1
            /\ pc' = operation
            /\ ret' = Return(None)
       ELSE /\ ret' = ReadBodyOf(operation, TheFile)
            /\ UNCHANGED <<handles, pc>>
    /\ UNCHANGED <<fileVars, headerVars>>

\* The with block of the reading operation, left by return or by raise
ReadBody ==
    /\ pc \in ReadOperations
    /\ ret' = ReadBodyOf(pc, TheFile)
    /\ handles' = with_exit(handles)
    /\ pc' = "idle"
    /\ UNCHANGED <<fileVars, headerVars, op, arg, snap, history>>

\* validate_file: _validate_file_access (os.path.exists, os.path.getsize)
\* and _validate_file_extension; it returns here when Access left errors.
ValidateAccess(suffix) ==
    /\ pc = "idle"
    /\ op' = "validate_file"
    /\ arg' = suffix
    /\ snap' = <<TheFile>>
    /\ history' = {TheFile}
    /\ IF validate_returns_after(snap')
       THEN /\ ret' = Return(validate_snapshots(snap', suffix))
            /\ pc' = "idle"
       ELSE /\ ret' = Return(None)
            /\ pc' = "structure"
    /\ UNCHANGED <<fileVars, headerVars, handles>>

ValidateStages == {"structure", "header", "pixel_data"}

OpenedStage(stage) ==
    IF stage = "structure" THEN "structure_open"
    ELSE IF stage = "header" THEN "header_open" ELSE "pixel_data_open"

NextStage(opened) ==
    IF opened = "structure_open" THEN "header"
    ELSE IF opened = "header_open" THEN "pixel_data" ELSE "integrity"

\* open(file_path, 'rb') of _validate_file_structure, _validate_header,
\* _validate_pixel_data
StageOpen ==
    /\ pc \in ValidateStages
    /\ handles' = handles + 1
    /\ pc' = OpenedStage(pc)
    /\ UNCHANGED <<fileVars, headerVars, op, arg, ret, snap, history>>

\* The with block of the stage: it reads the file as it is now and closes
\* it.  After the PixelData stage _validate_integrity compares with the size
\* Access saved, and validate_file returns.
StageRead ==
    /\ pc \in {OpenedStage(stage) : stage \in ValidateStages}
    /\ snap' = Append(snap, TheFile)
    /\ handles' = with_exit(handles)
    /\ IF validate_returns_after(snap')
       THEN /\ ret' = Return(validate_snapshots(snap', arg))
            /\ pc' = "idle"
       ELSE /\ pc' = NextStage(pc)
            /\ UNCHANGED ret
    /\ UNCHANGED <<fileVars, headerVars, op, arg, history>>

StepNext ==
    \/ EncodeOpen(<<<<255, 255, 255>>>>, 1, 1)
    \/ EncodeOpen(<<<<255, 255, 255>>>>, 2, 1)
    \/ \E written \in BOOLEAN : EncodeWrite(written)
    \/ \E operation \in ReadOperations : ReadOpen(operation)
    \/ ReadBody
    \/ \E suffix \in {SATISH_SUFFIX, <<46, 112, 110, 103>>} : ValidateAccess(suffix)
    \/ StageOpen
    \/ StageRead
    \/ \E data \in RaceFiles : Rewrite(data)

StepSpec == Init /\ [][StepNext]_vars

-----------------------------------------------------------------------------
(* Properties of the header functions, checked under HeaderSpec.           *)

\* C3. Header round-trip: a created header with version <= 255 packs into
\* 10 bytes; unpacking the packed bytes of a header returns that header in
\* every field; and packing whatever unpack_header returns gives back the
\* first 10 bytes of its input.
HeaderRoundTrip ==
    /\ (op = "pack_header" /\ arg.version <= 255)
          => Returned(ret) /\ Len(ret.val) = HEADER_SIZE
    /\ (op = "unpack_header" /\ packed # <<>> /\ arg = packed)
          => ret = Return(hdr)
    /\ (op = "unpack_header" /\ Returned(ret))
          => pack_header(ret.val) = Return(Slice(arg, 0, HEADER_SIZE))

HeaderRoundTripWitness ==
    /\ op = "unpack_header"
    /\ packed # <<>>
    /\ arg = packed
    /\ hdr = SatishHeader(MAGIC_BYTES, 256, 65535, 3, 255)
    /\ ret = Return(hdr)

BadWidth(w) == w < 1 \/ w > 65535

BadHeight(h) == h < 1 \/ h > 65535

\* C4. Boundary rejection: create_header raises InvalidFormatError and gives
\* no header when width or height is outside 1..65535, channels is not 3 or
\* version is below 1; the first violated field in the order width, height,
\* channels, version is the one the error reports.
BoundaryRejection ==
    op = "create_header" =>
        LET w == arg[1]
            h == arg[2]
            c == arg[3]
            v == arg[4]
        IN  (BadWidth(w) \/ BadHeight(h) \/ c # 3 \/ v < 1) =>
                /\ Raised(ret, "InvalidFormatError")
                /\ hdr = None
                /\ IF BadWidth(w)
                   THEN ret.text = <<"Width must be between 1 and MAX_WIDTH, got">> /\ ret.data = <<w>>
                   ELSE IF BadHeight(h)
                   THEN ret.text = <<"Height must be between 1 and MAX_HEIGHT, got">> /\ ret.data = <<h>>
                   ELSE IF c # 3
                   THEN ret.text = <<"Unsupported channels">> /\ ret.data = <<c>>
                   ELSE ret.text = <<"Version must be >= 1, got">> /\ ret.data = <<v>>

BoundaryRejectionWitness ==
    /\ op = "create_header"
    /\ arg = <<1, 0, 4, 0>>
    /\ Raised(ret, "InvalidFormatError")
    /\ ret.data = <<0>>
    /\ ret.text = <<"Height must be between 1 and MAX_HEIGHT, got">>

\* C5. unpack_header validates as create_header does: on a 10-byte input
\* that starts with the magic, unpack_header returns exactly when
\* create_header returns on the decoded field values, and then both give
\* the same header.
UnpackValidatesAsCreate ==
    (op = "unpack_header" /\ Len(arg) = HEADER_SIZE /\ SubSeq(arg, 1, 4) = MAGIC_BYTES) =>
        LET w == arg[5] * 256 + arg[6]
            h == arg[7] * 256 + arg[8]
            created == create_header(w, h, arg[9], arg[10])
        IN  /\ Returned(ret) <=> Returned(created)
            /\ Returned(ret) => ret = created

UnpackValidatesAsCreateWitness ==
    /\ op = "unpack_header"
    /\ arg = MAGIC_BYTES \o <<1, 0, 2, 1, 3, 2>>
    /\ ret = Return(SatishHeader(MAGIC_BYTES, 256, 513, 3, 2))

\* C6. unpack_header raises InvalidFormatError on every input shorter than
\* 10 bytes, reporting the length whatever the bytes are, and on every
\* input of at least 10 bytes that does not start with the magic, reporting
\* the offending bytes.
UnpackRejectsShortAndBadMagic ==
    op = "unpack_header" =>
        /\ Len(arg) < HEADER_SIZE =>
              /\ Raised(ret, "InvalidFormatError")
              /\ ret.text = <<"Header too short: expected HEADER_SIZE bytes, got">>
              /\ ret.data = <<Len(arg)>>
              /\ hdr = None
        /\ (Len(arg) >= HEADER_SIZE /\ SubSeq(arg, 1, 4) # MAGIC_BYTES) =>
              /\ Raised(ret, "InvalidFormatError")
              /\ ret.text = <<"Invalid magic bytes: expected MAGIC_BYTES, got">>
              /\ ret.data = SubSeq(arg, 1, 4)
              /\ hdr = None

UnpackRejectsShortAndBadMagicWitness ==
    /\ op = "unpack_header"
    /\ arg = <<83, 65, 84, 88, 0, 1, 0, 2, 3, 1>>
    /\ Raised(ret, "InvalidFormatError")
    /\ ret.data = <<83, 65, 84, 88>>

\* C7. A header is accepted only with a version of at most CURRENT_VERSION:
\* neither create_header nor unpack_header returns a header whose version
\* is above 1.
VersionAtMostCurrent ==
    (op \in {"create_header", "unpack_header"} /\ Returned(ret)) =>
        ret.val.version <= CURRENT_VERSION

\* C8. pack_header is total on created headers: every call returns a byte
\* string of length HEADER_SIZE.
PackHeaderTotal ==
    op = "pack_header" => Returned(ret) /\ Len(ret.val) = HEADER_SIZE


-----------------------------------------------------------------------------
(* Properties of encoding, decoding and validating a file, checked under   *)
(* Spec.                                                                   *)

\* Every component of every pixel is in 0..255.
ComponentsInRange(pixels) ==
    \A i \in 1..Len(pixels) : \A k \in 1..Len(pixels[i]) : pixels[i][k] \in 0..255

\* The file is what the last successful encode wrote, and that encode was
\* given components in 0..255.
FreshlyEncoded == encoded # None /\ ~tampered /\ ComponentsInRange(encoded.pixels)

\* C1. Round trip: decoding the file a successful encode of in-range pixels
\* wrote succeeds; _load_satish_file returns the header (SATI, width, height,
\* 3, 1) and the same pixels in the same order, decode_to_array the same
\* pixels, width and height.
RoundTrip ==
    FreshlyEncoded =>
        /\ op = "_load_satish_file" =>
              ret = Return([header |-> SatishHeader(MAGIC_BYTES, encoded.width, encoded.height, 3, 1),
                            pixels |-> encoded.pixels])
        /\ op = "decode_to_array" =>
              ret = Return(<<encoded.pixels, encoded.width, encoded.height>>)

RoundTripWitness ==
    /\ FreshlyEncoded
    /\ op = "_load_satish_file"
    /\ Returned(ret)
    /\ Len(encoded.pixels) = 4
    /\ encoded.pixels[1] # encoded.pixels[2]
    /\ ret.val.pixels[2] = <<0, 10, 171>>

\* The sixteen lowercase hexadecimal digits, "0123456789abcdef"
LowerHexDigits == <<48, 49, 50, 51, 52, 53, 54, 55, 56, 57, 97, 98, 99, 100, 101, 102>>

\* The two lowercase hexadecimal characters of a byte
TwoHex(n) == <<LowerHexDigits[(n \div 16) + 1], LowerHexDigits[(n % 16) + 1]>>

RECURSIVE HexPayload(_)
\* rrggbb of each pixel in buffer order, nothing between them
HexPayload(pixels) ==
    IF pixels = <<>> THEN <<>>
    ELSE TwoHex(Head(pixels)[1]) \o TwoHex(Head(pixels)[2]) \o TwoHex(Head(pixels)[3])
         \o HexPayload(Tail(pixels))

\* The 1x1 white file: "SATI" 00 01 00 01 03 01 "ffffff"
WhitePixelFile == <<83, 65, 84, 73, 0, 1, 0, 1, 3, 1, 102, 102, 102, 102, 102, 102>>

\* C2. Byte layout: the file a successful encode of in-range pixels wrote is
\* "SATI", the width and the height as two big-endian bytes each, the bytes
\* 3 and 1, then six lowercase hexadecimal characters per pixel in buffer
\* order; the 1x1 buffer [(255,255,255)] gives the 16 bytes of
\* WhitePixelFile.
ByteLayout ==
    FreshlyEncoded =>
        /\ fileExists
        /\ fileData = <<83, 65, 84, 73,
                        encoded.width \div 256, encoded.width % 256,
                        encoded.height \div 256, encoded.height % 256,
                        3, 1>> \o HexPayload(encoded.pixels)
        /\ (encoded.pixels = <<(<<255, 255, 255>>)>> /\ encoded.width = 1 /\ encoded.height = 1)
              => fileData = WhitePixelFile

ByteLayoutWitness ==
    /\ FreshlyEncoded
    /\ op = "encode_from_array"
    /\ Returned(ret)
    /\ fileData = WhitePixelFile

\* '0'..'9', 'a'..'f' and 'A'..'F'
HexDigitBytes == (48..57) \cup (97..102) \cup (65..70)

\* The width and the height the bytes of a file's header give
WidthOf(data) == data[5] * 256 + data[6]

HeightOf(data) == data[7] * 256 + data[8]

\* The file starts with a header that has the magic bytes, a width and a
\* height of at least 1, 3 channels and version 1.
CorrectHeader ==
    /\ fileExists
    /\ Len(fileData) >= 10
    /\ SubSeq(fileData, 1, 4) = <<83, 65, 84, 73>>
    /\ WidthOf(fileData) >= 1
    /\ HeightOf(fileData) >= 1
    /\ fileData[9] = 3
    /\ fileData[10] = 1

\* A correct header followed by exactly width*height*6 hexadecimal digits
RightSizedHexFile ==
    /\ CorrectHeader
    /\ Len(fileData) = 10 + WidthOf(fileData) * HeightOf(fileData) * 6
    /\ \A i \in 11..Len(fileData) : fileData[i] \in HexDigitBytes

\* Widths and heights calculate_pixel_data_size is applied to
SampleAreas == {<<1, 1>>, <<2, 2>>, <<1, 65535>>, <<65535, 1>>, <<4096, 4096>>, <<0, 7>>}

\* C9. Size invariant: calculate_pixel_data_size(w, h, c) is w*h*6 whatever
\* c is, and validate_file reports every right-sized file of a correct header
\* and hexadecimal digits as valid with no errors, whatever its suffix.
SizeInvariant ==
    /\ \A d \in SampleAreas, c \in SampleChannels :
          calculate_pixel_data_size(d[1], d[2], c) = d[1] * d[2] * 6
    /\ (op = "validate_file" /\ RightSizedHexFile) =>
          /\ Returned(ret)
          /\ ret.val.valid = TRUE
          /\ ret.val.errors = <<>>

SizeInvariantWitness ==
    /\ op = "validate_file"
    /\ arg = <<46, 112, 110, 103>>
    /\ RightSizedHexFile
    /\ tampered
    /\ WidthOf(fileData) * HeightOf(fileData) = 4
    /\ ret.val.valid = TRUE

\* C10. _load_satish_file of a file with a correct header whose pixel data
\* is not width*height*6 bytes long raises InvalidFormatError for the size
\* mismatch.
SizeMismatchIsInvalidFormat ==
    (/\ op = "_load_satish_file"
     /\ CorrectHeader
     /\ Len(fileData) - 10 # WidthOf(fileData) * HeightOf(fileData) * 6)
        => /\ Raised(ret, "InvalidFormatError")
           /\ ret.text = <<"Pixel data size mismatch: expected, got">>

\* The pixel-data section of the file is not width*height*6 bytes long.
WrongPixelSize == Len(fileData) - 10 # WidthOf(fileData) * HeightOf(fileData) * 6

\* The entry validate_file records for a pixel-data section of the wrong
\* size: "Validation failed: Pixel data error: Pixel data size mismatch:
\* expected <expected>, got <actual>"
SizeMismatchEntry(expected, actual) ==
    Msg(<<"Validation failed", "Pixel data error", "Pixel data size mismatch: expected, got">>,
        <<expected, actual>>)

\* C11. validate_file on a file with a correct header whose pixel data is
\* not width*height*6 bytes long returns a result with valid = false whose
\* errors hold the size mismatch with the expected and the actual size.
SizeMismatchReported ==
    (op = "validate_file" /\ CorrectHeader /\ WrongPixelSize) =>
        /\ Returned(ret)
        /\ ret.val.valid = FALSE
        /\ \E k \in 1..Len(ret.val.errors) :
              ret.val.errors[k] =
                  SizeMismatchEntry(WidthOf(fileData) * HeightOf(fileData) * 6, Len(fileData) - 10)

\* A 2x2 file without its last byte was validated.
SizeMismatchReportedWitness ==
    /\ op = "validate_file"
    /\ CorrectHeader
    /\ WidthOf(fileData) = 2
    /\ HeightOf(fileData) = 2
    /\ Len(fileData) = 33
    /\ ret.val.errors = <<SizeMismatchEntry(24, 23)>>

\* The pixel data has the right size and holds a byte that is not ASCII or
\* a character that is no hexadecimal digit.
CorruptedPixelData ==
    /\ CorrectHeader
    /\ ~WrongPixelSize
    /\ \E i \in 11..Len(fileData) : fileData[i] \notin HexDigitBytes

\* C12. When _load_satish_file fails on a file whose pixel data has the
\* right size but holds a non-ASCII byte or a malformed group, the error it
\* raises is an InvalidFormatError.
CorruptedIsInvalidFormat ==
    (op = "_load_satish_file" /\ CorruptedPixelData /\ Returned(ret) = FALSE)
        => ret.exc \in InvalidFormatErrors

\* C13. Every result validate_file returns has valid = (errors is empty),
\* whatever its warnings are.
ValidIffNoErrors ==
    op = "validate_file" =>
        /\ Returned(ret)
        /\ ret.val.valid = (ret.val.errors = <<>>)

\* A file was reported valid although there are warnings.
ValidIffNoErrorsWitness ==
    /\ op = "validate_file"
    /\ ret.val.valid = TRUE
    /\ ret.val.warnings # <<>>

\* results['info'] has the key k
HasInfo(results, k) == results.info # <<>> /\ k \in DOMAIN results.info

\* The first 10 bytes of the file are a header unpack_header takes: the
\* magic, width and height of at least 1, 3 channels, a version of at
\* least 1.
HeaderParses ==
    /\ fileExists
    /\ Len(fileData) >= 10
    /\ SubSeq(fileData, 1, 4) = <<83, 65, 84, 73>>
    /\ WidthOf(fileData) >= 1
    /\ HeightOf(fileData) >= 1
    /\ fileData[9] = 3
    /\ fileData[10] >= 1

\* The warning of the Extension stage for the suffix
ExtensionWarning(suffix) ==
    IF suffix = <<46, 115, 97, 116, 105, 115, 104>> \/ suffix = <<46, 83, 65, 84, 73, 83, 72>>
    THEN <<>>
    ELSE <<Msg(<<"Unexpected file extension: (expected: .satish)">>, suffix)>>

\* The warning of the Structure stage for a pixel section whose size is no
\* multiple of 6
StructureWarning ==
    IF (Len(fileData) - 10) % 6 = 0
    THEN <<>>
    ELSE <<Msg(<<"Pixel data size not aligned to pixel boundaries">>, <<>>)>>

\* C14. validate_file runs Access, Extension, Structure, Header, PixelData
\* and Integrity in this order.  An error of Access ends the run: the result
\* has that one error, no warnings and no header info.  A header that cannot
\* be parsed ends it after the Header stage: no pixel_data_size, pixel_count
\* or integrity info.  The findings of Extension and Structure end nothing:
\* they are the warnings, in this order, of every run that passed Access,
\* and the Header stage ran after them.
StagesInOrder ==
    op = "validate_file" =>
        /\ (~fileExists \/ Len(fileData) < 10) =>
              /\ Len(ret.val.errors) = 1
              /\ ret.val.warnings = <<>>
              /\ ~HasInfo(ret.val, "header")
              /\ ~HasInfo(ret.val, "pixel_data_size")
              /\ ~HasInfo(ret.val, "integrity")
        /\ (fileExists /\ Len(fileData) >= 10) =>
              /\ ret.val.warnings = ExtensionWarning(arg) \o StructureWarning
              /\ HasInfo(ret.val, "file_size")
              /\ HasInfo(ret.val, "header") <=> HeaderParses
              /\ ~HeaderParses =>
                    /\ Len(ret.val.errors) = 1
                    /\ ret.val.errors[1].text[1] = "Header validation failed"
                    /\ ~HasInfo(ret.val, "pixel_data_size")
                    /\ ~HasInfo(ret.val, "pixel_count")
                    /\ ~HasInfo(ret.val, "integrity")
        /\ HasInfo(ret.val, "integrity") =>
              /\ HasInfo(ret.val, "header")
              /\ HasInfo(ret.val, "pixel_data_size")
              /\ HasInfo(ret.val, "pixel_count")

\* A file of 9 bytes with the suffix .png was validated: Access ended the
\* run before the Extension stage could warn.
StagesInOrderWitness ==
    /\ op = "validate_file"
    /\ arg = <<46, 112, 110, 103>>
    /\ fileExists
    /\ Len(fileData) = 9
    /\ ret.val.warnings = <<>>
    /\ Len(ret.val.errors) = 1

\* The fields of the file's header that violate their invariant
ViolatedFields ==
    (IF SubSeq(fileData, 1, 4) # <<83, 65, 84, 73>> THEN {"magic"} ELSE {})
    \cup (IF WidthOf(fileData) < 1 THEN {"width"} ELSE {})
    \cup (IF HeightOf(fileData) < 1 THEN {"height"} ELSE {})
    \cup (IF fileData[9] # 3 THEN {"channels"} ELSE {})
    \cup (IF fileData[10] # 1 THEN {"version"} ELSE {})

\* C15. The Header stage of validate_file collects every field violation of
\* the file's header as an entry of its own in errors: there are at least
\* as many errors as violated fields.
EveryFieldViolationCollected ==
    (op = "validate_file" /\ fileExists /\ Len(fileData) >= 10) =>
        Len(ret.val.errors) >= Cardinality(ViolatedFields)

-----------------------------------------------------------------------------
(* Properties of the validator's sampling, checked under SamplingSpec.     *)

\* The malformed groups among the first 10
SampledMalformed == {g \in MalformedGroups(fileData) : g < 10}

\* The least element of a non-empty set of numbers
Least(S) == CHOOSE g \in S : \A o \in S : g <= o

\* C16. Hex sampling: for a file with a correct header, the right size and
\* ASCII pixel data, validate_file looks at the first 10 groups only and
\* stops at the first malformed one: with no malformed group among the
\* first 10 the file is valid with no errors, whatever the later groups
\* are; otherwise the errors are those of one group, the lowest-indexed
\* malformed one.
SamplesFirstTenGroups ==
    (op = "validate_file" /\ CorrectHeader /\ ~WrongPixelSize) =>
        IF SampledMalformed = {}
        THEN ret.val.valid = TRUE /\ ret.val.errors = <<>>
        ELSE /\ ret.val.valid = FALSE
             /\ ret.val.errors =
                    <<Msg(<<"Pixel", "Invalid hex characters in">>,
                          <<Least(SampledMalformed)>> \o MalformedGroup)>>

\* Groups 2, 7 and 11 of a 12-pixel file are "zzzzzz" and only group 2 was
\* reported.
SamplesFirstTenGroupsWitness ==
    /\ op = "validate_file"
    /\ CorrectHeader
    /\ ~WrongPixelSize
    /\ MalformedGroups(fileData) = {2, 7, 11}
    /\ Len(ret.val.errors) = 1
    /\ ret.val.errors[1].data[1] = 2

-----------------------------------------------------------------------------
(* Further properties of the validator and the decoder, checked under      *)
(* Spec.                                                                   *)

\* The entry the Integrity stage records for a file of the wrong size
FileSizeMismatchEntry(expected, actual) ==
    Msg(<<"File size mismatch: expected, got">>, <<expected, actual>>)

\* C17. Integrity stage: when the size of a file with a correct header is
\* not HEADER_SIZE + width*height*6, the result of validate_file has the
\* file-size mismatch error and the integrity info with the expected and
\* the actual size and size_match = false.
IntegrityMismatchRecorded ==
    (op = "validate_file" /\ CorrectHeader /\ WrongPixelSize) =>
        /\ \E k \in 1..Len(ret.val.errors) :
              ret.val.errors[k] =
                  FileSizeMismatchEntry(10 + WidthOf(fileData) * HeightOf(fileData) * 6,
                                        Len(fileData))
        /\ HasInfo(ret.val, "integrity")
        /\ ret.val.info["integrity"] =
              [expected_size |-> 10 + WidthOf(fileData) * HeightOf(fileData) * 6,
               actual_size |-> Len(fileData),
               size_match |-> FALSE]

\* C18. quick_validate returns True exactly when the path names a file of
\* at least 10 bytes whose first 10 bytes unpack_header takes, whatever
\* follows them, and False otherwise; it never raises.
QuickValidateHeaderOnly ==
    op = "quick_validate" => ret = Return(HeaderParses)

\* quick_validate returned True for a file whose pixel data has the wrong
\* size and ends in a byte that is not ASCII.
QuickValidateHeaderOnlyWitness ==
    /\ op = "quick_validate"
    /\ ret = Return(TRUE)
    /\ WrongPixelSize
    /\ fileData[Len(fileData)] = 128

\* C19. get_satish_info returns for every file whose first 10 bytes are a
\* header unpack_header takes, whatever the length and the content of the
\* pixel data: expected = width*height*6, actual = file size - 10, valid =
\* (expected = actual), pixel_count = width*height.
InfoHeaderOnly ==
    (op = "get_satish_info" /\ HeaderParses) =>
        /\ Returned(ret)
        /\ ret.val.file_size = Len(fileData)
        /\ ret.val.pixel_count = WidthOf(fileData) * HeightOf(fileData)
        /\ ret.val.pixel_data_size =
              [expected |-> WidthOf(fileData) * HeightOf(fileData) * 6,
               actual |-> Len(fileData) - 10,
               valid |-> ~WrongPixelSize]

\* get_satish_info returned for a file whose pixel data is too short.
InfoHeaderOnlyWitness ==
    /\ op = "get_satish_info"
    /\ HeaderParses
    /\ Len(fileData) - 10 < WidthOf(fileData) * HeightOf(fileData) * 6
    /\ Returned(ret)
    /\ ret.val.pixel_data_size.valid = FALSE

\* The file is missing, shorter than 10 bytes, has a header field that
\* violates its invariant, pixel data of the wrong size, or pixel data with
\* a byte that is no hexadecimal digit.
StructuralProblem ==
    \/ ~fileExists
    \/ Len(fileData) < 10
    \/ ViolatedFields # {}
    \/ WrongPixelSize
    \/ \E i \in 11..Len(fileData) : fileData[i] \notin HexDigitBytes

FailedEncodeWritesNothing ==
    [][(/\ op' = "encode_from_array"
        /\ \/ arg'[1] # arg'[2] * arg'[3]
           \/ arg'[2] \notin 1..65535
           \/ arg'[3] \notin 1..65535)
          => /\ Raised(ret', "EncodingError")
             /\ ret'.text[1] = "Failed to encode pixel array"
             /\ fileExists' = fileExists
             /\ fileData' = fileData]_vars

\* An encode of 1 pixel as 2x2 failed on a path that holds a 1x1 file.
FailedEncodeWritesNothingWitness ==
    /\ op = "encode_from_array"
    /\ arg = <<1, 2, 2>>
    /\ Raised(ret, "EncodingError")
    /\ fileExists
    /\ Len(fileData) = 16

\* C22. I/O failures keep the FileError kind at the public entry points:
\* decode_to_array on a path that names no file raises FileError.
MissingSourceIsFileError ==
    (op = "decode_to_array" /\ ~fileExists) => Raised(ret, "FileError")

\* C24. The decoder takes a pixel group only when its 6 characters are
\* hexadecimal digits: _load_satish_file never returns for a file with an
\* acceptable header and pixel data of the right size that holds any other
\* character.
OnlyHexDigitsDecoded ==
    (/\ op = "_load_satish_file"
     /\ HeaderParses
     /\ ~WrongPixelSize
     /\ \E i \in 11..Len(fileData) : fileData[i] \notin HexDigitBytes)
        => ~Returned(ret)

\* C26. Every successful decode returns width*height pixels, each a triple
\* of components in 0..255.
DecodedPixelsWellFormed ==
    (op = "_load_satish_file" /\ Returned(ret)) =>
        /\ Len(ret.val.pixels) = ret.val.header.width * ret.val.header.height
        /\ \A i \in 1..Len(ret.val.pixels) : Len(ret.val.pixels[i]) = 3
        /\ ComponentsInRange(ret.val.pixels)

\* C27. Whenever encode_from_array returns True the file it wrote has
\* exactly 10 + width*height*6 bytes and the decoder takes it, whatever the
\* integer components of the pixels are.
EncodedFileWellSized ==
    (op = "encode_from_array" /\ Returned(ret)) =>
        /\ Len(fileData) = 10 + arg[2] * arg[3] * 6
        /\ Returned(_load_satish_file(TheFile))

\* C28. Validator and decoder agree on files of at most 10 pixels:
\* validate_file reports valid = true exactly when _load_satish_file of the
\* same bytes returns.
ValidatorAgreesWithDecoder ==
    (op = "validate_file" /\ fileExists /\ GroupCount(fileData) <= 10) =>
        (ret.val.valid <=> Returned(_load_satish_file(TheFile)))

-----------------------------------------------------------------------------
(* Properties of the validator's helper checks, checked under HelperSpec.  *)

\* C25. validate_hex_string with the default expected length returns an
\* empty list exactly when the string is 6 hexadecimal digits.
HexStringExactlySixDigits ==
    op = "validate_hex_string" =>
        (ret.val = <<>> <=>
            /\ Len(arg) = HEX_CHARS_PER_PIXEL
            /\ \A i \in 1..Len(arg) : arg[i] \in HexDigitBytes)

\* C29. validate_pixel_array returns at most 12 entries, and when the scan
\* reached more than 10 errors the last entry is the marker.
PixelErrorsCapped ==
    op = "validate_pixel_array" =>
        /\ Len(ret.val) <= 12
        /\ Len(ret.val) > 10 =>
               ret.val[Len(ret.val)].text[1] = "... (too many pixel errors, stopping validation)"

-----------------------------------------------------------------------------
(* Properties of the operations step by step, checked under StepSpec.      *)

\* C23. Every handle an operation opened is closed when the operation has
\* returned or raised: between operations no handle is open, and during an
\* operation at most one is.
NoHandleLeftOpen ==
    /\ pc = "idle" => handles = 0
    /\ handles \in {0, 1}

\* A reading operation and an encode that failed while the file was open,
\* after it
NoHandleLeftOpenWitness ==
    /\ pc = "idle"
    /\ handles = 0
    /\ fileExists
    /\ \/ op = "_load_satish_file" /\ Raised(ret, "InvalidFormatError")
       \/ op = "encode_from_array" /\ Raised(ret, "EncodingError") /\ snap # <<>>

\* The content is a well-formed SATISH file: an acceptable header, the size
\* the header gives, hexadecimal digits in the groups that are sampled.
WellFormed(f) ==
    /\ f.exists
    /\ Len(f.data) >= HEADER_SIZE
    /\ Returned(unpack_header(Slice(f.data, 0, HEADER_SIZE)))
    /\ validate_header_data(unpack_header(Slice(f.data, 0, HEADER_SIZE)).val) = <<>>
    /\ Len(f.data) = HEADER_SIZE + WidthOf(f.data) * HeightOf(f.data) * HEX_CHARS_PER_PIXEL
    /\ \A i \in (HEADER_SIZE + 1)..Len(f.data) :
           i <= HEADER_SIZE + 10 * HEX_CHARS_PER_PIXEL => f.data[i] \in HexDigitBytes

\* C30. validate_file judges a single snapshot: it returns valid = true
\* only if at some instant of the call the file was a well-formed SATISH
\* file, whatever other processes write between its stages.
ValidJudgesOneSnapshot ==
    (op = "validate_file" /\ pc = "idle" /\ ret.val.valid) =>
        \E f \in history : WellFormed(f)

=============================================================================
